---- MODULE Spec2Model ----
(***************************************************************************)
(* Model of dismob's logging and safe dispatch helpers (src/dismob/log.py) *)
(* and of the colour resolver (src/dismob/colors.py).                      *)
(*                                                                         *)
(* The module-global `logger` and the handlers and levels of the logging   *)
(* package's logger objects are the only state the program keeps between   *)
(* calls.  Every helper is an operator from the sink state, its arguments  *)
(* and the outcome of each network call it awaits to the effects of the    *)
(* call; the variable `call` holds the effects of the call made last.      *)
(*                                                                         *)
(* A helper reads `logger` only when it logs, after the network call it    *)
(* awaits has ended, and `logger` once set is never unset: a call is one   *)
(* step, taken with the sink in the state it has when the call logs.       *)
(***************************************************************************)
EXTENDS Integers, Sequences, FiniteSets, TLC

VARIABLES
    logger,     \* log.py:14, the module global: None or the name of a logger
    registry,   \* the logging package's logger objects: level and handlers
    first,      \* history: the thresholds in effect after the first setup_logger
    call        \* the effects of the last call of a helper

vars == <<logger, registry, first, call>>

None == "None"

(***************************************************************************)
(* Severities of the logging package, log.py:28-30.                        *)
(***************************************************************************)
NOTSET == 0
DEBUG == 10
INFO == 20
WARNING == 30
ERROR == 40
CRITICAL == 50

\* str.upper() on the severity names a caller passes
upper(s) ==
    CASE s = "debug" -> "DEBUG"
      [] s = "info" -> "INFO"
      [] s = "warning" -> "WARNING"
      [] s = "error" -> "ERROR"
      [] s = "critical" -> "CRITICAL"
      [] OTHER -> s

\* logging.getLevelNamesMapping()
logLevels ==
    [n \in {"CRITICAL", "FATAL", "ERROR", "WARN", "WARNING", "INFO", "DEBUG", "NOTSET"} |->
        CASE n \in {"CRITICAL", "FATAL"} -> CRITICAL
          [] n = "ERROR" -> ERROR
          [] n \in {"WARN", "WARNING"} -> WARNING
          [] n = "INFO" -> INFO
          [] n = "DEBUG" -> DEBUG
          [] OTHER -> NOTSET]

\* logLevels.get(level.upper(), logging.INFO)
LevelOf(level) ==
    IF upper(level) \in DOMAIN logLevels THEN logLevels[upper(level)] ELSE INFO

Min(a, b) == IF a <= b THEN a ELSE b
Max(a, b) == IF a >= b THEN a ELSE b

\* the arguments setup_logger is called with: the default logger name, and a
\* lower-case, an upper-case and an unrecognized severity name
LoggerNames == {"DungeonBot"}
LevelNames == {"debug", "ERROR", "verbose"}

\* Logger.hasHandlers(): the loggers are direct children of the root logger,
\* which has no handler of its own
hasHandlers(reg, name) == Len(reg[name].handlers) > 0

Handlers(reg, name, kind) ==
    {i \in 1..Len(reg[name].handlers) : reg[name].handlers[i].kind = kind}

\* the least severity a handler of `kind` of logger `name` writes: a record
\* passes the logger's level and then the handler's (every handler of the kind
\* has the level of the first, when there is one)
Threshold(reg, name, kind) ==
    IF Handlers(reg, name, kind) = {} THEN CRITICAL + 1
    ELSE Max(reg[name].level,
             reg[name].handlers[CHOOSE i \in Handlers(reg, name, kind) : TRUE].level)

NotYet == [file |-> -1, console |-> -1]

\* setup_logger(logger_name, file_level, console_level): the logger objects after it
setup_logger(reg, name, file_level, console_level) ==
    LET file_logLevel == LevelOf(file_level)
        console_logLevel == LevelOf(console_level)
    IN  [reg EXCEPT ![name] =
            [level |-> Min(file_logLevel, console_logLevel),
             handlers |->
                IF ~hasHandlers(reg, name)
                THEN <<[kind |-> "file", level |-> file_logLevel],
                       [kind |-> "console", level |-> console_logLevel]>>
                ELSE @.handlers]]

(***************************************************************************)
(* Logging functions, log.py:106-127.  The result of a logging call is the *)
(* exception it raises ("none" when it returns) and the records it hands   *)
(* to the logger.                                                          *)
(***************************************************************************)
Record(lg, level, msg) == [level |-> level, name |-> lg, msg |-> msg]

\* a guard that lets every call through
require_logger_Absent(lg) == TRUE

\* require_logger: the wrapped function is called only with a logger set up
require_logger(lg) == lg # None

Emit(lg, level, msg) ==
    IF require_logger(lg)
    THEN [raised |-> "none", logged |-> <<Record(lg, level, msg)>>]
    ELSE [raised |-> "RuntimeError", logged |-> <<>>]

debug(lg, msg) == Emit(lg, DEBUG, msg)
info(lg, msg) == Emit(lg, INFO, msg)
warning(lg, msg) == Emit(lg, WARNING, msg)
error(lg, msg) == Emit(lg, ERROR, msg)

(***************************************************************************)
(* Discord helpers, log.py:135-174.  `outcome` is what the awaited network *)
(* call does: "Ok", or the exception it raises.                            *)
(***************************************************************************)
SendRoute == "safe_send"
CallbackRoute == "POST /interactions/{interaction_id}/{interaction_token}/callback"
FollowupRoute == "POST /webhooks/{application_id}/{interaction_token}"

\* what the rate limiter's safe_send does
SendOutcomes == {"Ok", "Forbidden", "NotFound", "HTTPException"}
\* what the rate limiter's execute_request does
RequestOutcomes == {"Ok", "InteractionResponded", "Forbidden", "NotFound", "HTTPException"}

Payloads == {"content", "embed"}

NoResult == [tag |-> "None", route |-> "", payload |-> ""]
\* the value the rate limiter returns for a delivered payload
Result(route, payload) == [tag |-> "Result", route |-> route, payload |-> payload]

\* the effects of a call: the value returned, the exception that escapes,
\* the records logged, the routes of the rate limiter's invocations and what
\* each did, and what each send that bypasses the rate limiter did
Effects(ret, raised, logged, routes, outcomes, direct) ==
    [ret |-> ret, raised |-> raised, logged |-> logged,
     routes |-> routes, outcomes |-> outcomes, direct |-> direct]

\* safe_send_message with `except discord.Forbidden` as its only handler
safe_send_message_Reraises(lg, payload, outcome) ==
    IF outcome = "Ok"
    THEN LET i == info(lg, "Message sent")
         IN  Effects(IF i.raised = "none" THEN Result(SendRoute, payload) ELSE NoResult,
                     i.raised, i.logged, <<SendRoute>>, <<outcome>>, <<>>)
    ELSE IF outcome = "Forbidden"
    THEN LET e == error(lg, "No permission")
         IN  Effects(NoResult, e.raised, e.logged, <<SendRoute>>, <<outcome>>, <<>>)
    ELSE Effects(NoResult, outcome, <<>>, <<SendRoute>>, <<outcome>>, <<>>)

\* safe_send_message without the info() after the send
safe_send_message_Silent(lg, payload, outcome) ==
    LET e == CASE outcome = "Forbidden" -> error(lg, "No permission")
               [] outcome = "NotFound" -> error(lg, "Channel not found")
               [] OTHER -> error(lg, "Error when sending message")
    IN  IF outcome = "Ok"
        THEN Effects(Result(SendRoute, payload), "none", <<>>,
                     <<SendRoute>>, <<outcome>>, <<>>)
        ELSE Effects(NoResult, e.raised, e.logged, <<SendRoute>>, <<outcome>>, <<>>)

\* safe_send_message(channel, content, embed, view, file)
safe_send_message(lg, payload, outcome) ==
    IF outcome = "Ok"
    THEN LET i == info(lg, "Message sent")
             \* an exception of info() is raised inside the try block and is
             \* caught by `except Exception`
             e == error(lg, "Error when sending message")
         IN  IF i.raised = "none"
             THEN Effects(Result(SendRoute, payload), "none", i.logged,
                          <<SendRoute>>, <<outcome>>, <<>>)
             ELSE Effects(NoResult, e.raised, i.logged \o e.logged,
                          <<SendRoute>>, <<outcome>>, <<>>)
    ELSE LET e == CASE outcome = "Forbidden" -> error(lg, "No permission")
                    [] outcome = "NotFound" -> error(lg, "Channel not found")
                    [] OTHER -> error(lg, "Error when sending message")
         IN  Effects(NoResult, e.raised, e.logged, <<SendRoute>>, <<outcome>>, <<>>)

\* safe_followup that drops a failure without logging it
safe_followup_Unlogged(lg, payload, outcome) ==
    IF outcome = "Ok"
    THEN Effects(Result(FollowupRoute, payload), "none", <<>>,
                 <<FollowupRoute>>, <<outcome>>, <<>>)
    ELSE Effects(NoResult, "none", <<>>, <<FollowupRoute>>, <<outcome>>, <<>>)

\* safe_followup(interaction, content, embed, view, file, ephemeral)
safe_followup(lg, payload, outcome) ==
    IF outcome = "Ok"
    THEN Effects(Result(FollowupRoute, payload), "none", <<>>,
                 <<FollowupRoute>>, <<outcome>>, <<>>)
    ELSE LET e == error(lg, "Error during the followup")
         IN  Effects(NoResult, e.raised, e.logged,
                     <<FollowupRoute>>, <<outcome>>, <<>>)

\* safe_respond without the handler for discord.InteractionResponded
safe_respond_NoFallback(lg, payload, outcome, outcome2) ==
    IF outcome = "Ok"
    THEN Effects(Result(CallbackRoute, payload), "none", <<>>,
                 <<CallbackRoute>>, <<outcome>>, <<>>)
    ELSE LET e == error(lg, "Error when responding to the interaction")
         IN  Effects(NoResult, e.raised, e.logged,
                     <<CallbackRoute>>, <<outcome>>, <<>>)

\* safe_respond that sends the followup after any failure of the response
safe_respond_Retries(lg, payload, outcome, outcome2) ==
    IF outcome = "Ok"
    THEN Effects(Result(CallbackRoute, payload), "none", <<>>,
                 <<CallbackRoute>>, <<outcome>>, <<>>)
    ELSE LET f == safe_followup(lg, payload, outcome2)
         IN  Effects(NoResult, f.raised, f.logged,
                     <<CallbackRoute>> \o f.routes, <<outcome>> \o f.outcomes, <<>>)

\* safe_respond(interaction, content, embed, view, file, ephemeral);
\* outcome2 is what the followup's network call does, when it is made
safe_respond(lg, payload, outcome, outcome2) ==
    IF outcome = "Ok"
    THEN Effects(Result(CallbackRoute, payload), "none", <<>>,
                 <<CallbackRoute>>, <<outcome>>, <<>>)
    ELSE IF outcome = "InteractionResponded"
    THEN LET f == safe_followup(lg, payload, outcome2)
         \* the followup is awaited and its value is not returned
         IN  Effects(NoResult, f.raised, f.logged,
                     <<CallbackRoute>> \o f.routes, <<outcome>> \o f.outcomes, <<>>)
    ELSE LET e == error(lg, "Error when responding to the interaction")
         IN  Effects(NoResult, e.raised, e.logged,
                     <<CallbackRoute>>, <<outcome>>, <<>>)

(***************************************************************************)
(* Client message helpers, log.py:89-103.                                  *)
(***************************************************************************)
ContextKinds == {"Context", "Interaction"}

\* what the network call of client() can do for a target of kind ctx
ClientOutcomes(ctx) == IF ctx = "Context" THEN SendOutcomes ELSE RequestOutcomes

\* client(ctx, msg, title, color, delete_after): a command context is sent to
\* with ctx.send, an interaction is answered with safe_respond
client(lg, ctx, outcome, outcome2) ==
    IF ctx = "Context"
    THEN Effects(IF outcome = "Ok" THEN Result("ctx.send", "embed") ELSE NoResult,
                 IF outcome = "Ok" THEN "none" ELSE outcome,
                 <<>>, <<>>, <<>>, <<outcome>>)
    ELSE IF ctx = "Interaction"
    THEN safe_respond(lg, "embed", outcome, outcome2)
    ELSE Effects(NoResult, "none", <<>>, <<>>, <<>>, <<>>)

\* a logging call l, and then client() when l returned
Report(l, lg, ctx, outcome, outcome2) ==
    LET c == client(lg, ctx, outcome, outcome2)
    IN  IF l.raised # "none"
        THEN Effects(NoResult, l.raised, l.logged, <<>>, <<>>, <<>>)
        ELSE Effects(c.ret, c.raised, l.logged \o c.logged,
                     c.routes, c.outcomes, c.direct)

\* success(ctx, msg, delete_after)
success(lg, ctx, outcome, outcome2) ==
    Report(info(lg, "msg"), lg, ctx, outcome, outcome2)

\* failure(ctx, msg, delete_after, stacktrace)
failure(lg, ctx, outcome, outcome2) ==
    Report(error(lg, "msg"), lg, ctx, outcome, outcome2)

(***************************************************************************)
(* The colour resolver, colors.py:11-43.  A string is the sequence of its  *)
(* characters.                                                             *)
(***************************************************************************)
known_colors == {
    <<"t","e","a","l">>, <<"d","a","r","k","_","t","e","a","l">>,
    <<"b","r","a","n","d","_","g","r","e","e","n">>, <<"g","r","e","e","n">>,
    <<"d","a","r","k","_","g","r","e","e","n">>, <<"b","l","u","e">>,
    <<"d","a","r","k","_","b","l","u","e">>, <<"p","u","r","p","l","e">>,
    <<"d","a","r","k","_","p","u","r","p","l","e">>, <<"m","a","g","e","n","t","a">>,
    <<"d","a","r","k","_","m","a","g","e","n","t","a">>, <<"g","o","l","d">>,
    <<"d","a","r","k","_","g","o","l","d">>, <<"o","r","a","n","g","e">>,
    <<"d","a","r","k","_","o","r","a","n","g","e">>, <<"b","r","a","n","d","_","r","e","d">>,
    <<"r","e","d">>, <<"d","a","r","k","_","r","e","d">>,
    <<"l","i","g","h","t","e","r","_","g","r","e","y">>, <<"l","i","g","h","t","e","r","_","g","r","a","y">>,
    <<"d","a","r","k","_","g","r","e","y">>, <<"d","a","r","k","_","g","r","a","y">>,
    <<"l","i","g","h","t","_","g","r","e","y">>, <<"l","i","g","h","t","_","g","r","a","y">>,
    <<"d","a","r","k","e","r","_","g","r","e","y">>, <<"d","a","r","k","e","r","_","g","r","a","y">>,
    <<"o","g","_","b","l","u","r","p","l","e">>, <<"b","l","u","r","p","l","e">>,
    <<"g","r","e","y","p","l","e">>, <<"d","a","r","k","_","t","h","e","m","e">>,
    <<"f","u","c","h","s","i","a">>, <<"y","e","l","l","o","w">>,
    <<"d","a","r","k","_","e","m","b","e","d">>, <<"l","i","g","h","t","_","e","m","b","e","d">>,
    <<"p","i","n","k">>, <<"d","a","r","k","_","p","i","n","k">>
}

Whitespace == {" "}

HexDigits ==
    <<"0", "1", "2", "3", "4", "5", "6", "7", "8", "9", "a", "b", "c", "d", "e", "f">>

LowerMap ==
    ("A" :> "a") @@ ("B" :> "b") @@ ("C" :> "c") @@ ("D" :> "d") @@ ("E" :>
    "e") @@ ("F" :> "f") @@ ("G" :> "g") @@ ("H" :> "h") @@ ("I" :> "i") @@
    ("J" :> "j") @@ ("K" :> "k") @@ ("L" :> "l") @@ ("M" :> "m") @@ ("N" :>
    "n") @@ ("O" :> "o") @@ ("P" :> "p") @@ ("Q" :> "q") @@ ("R" :> "r") @@
    ("S" :> "s") @@ ("T" :> "t") @@ ("U" :> "u") @@ ("V" :> "v") @@ ("W" :>
    "w") @@ ("X" :> "x") @@ ("Y" :> "y") @@ ("Z" :> "z")

\* str.lower()
lower(s) == [i \in 1..Len(s) |-> IF s[i] \in DOMAIN LowerMap THEN LowerMap[s[i]] ELSE s[i]]

RECURSIVE lstrip(_)
lstrip(s) == IF s # <<>> /\ Head(s) \in Whitespace THEN lstrip(Tail(s)) ELSE s

RECURSIVE rstrip(_)
rstrip(s) ==
    IF s # <<>> /\ s[Len(s)] \in Whitespace THEN rstrip(SubSeq(s, 1, Len(s) - 1)) ELSE s

\* str.strip()
strip(s) == rstrip(lstrip(s))

IsHexDigit(c) == \E i \in 1..Len(HexDigits) : HexDigits[i] = lower(<<c>>)[1]

HexVal(c) == (CHOOSE i \in 1..Len(HexDigits) : HexDigits[i] = lower(<<c>>)[1]) - 1

RECURSIVE HexValue(_)
HexValue(ds) ==
    IF ds = <<>> THEN 0
    ELSE 16 * HexValue(SubSeq(ds, 1, Len(ds) - 1)) + HexVal(ds[Len(ds)])

\* int(s, 16): surrounding whitespace, a sign and a 0x prefix are accepted, and
\* single underscores between the digits (one may follow the prefix); any
\* other string raises ValueError (ok is FALSE)
int16(s) ==
    LET t == strip(s)
        signed == t # <<>> /\ t[1] \in {"+", "-"}
        u == IF signed THEN Tail(t) ELSE t
        prefixed == Len(u) >= 2 /\ u[1] = "0" /\ u[2] \in {"x", "X"}
        d == IF prefixed THEN SubSeq(u, 3, Len(u)) ELSE u
        body == IF prefixed /\ d # <<>> /\ d[1] = "_" THEN Tail(d) ELSE d
        wellformed ==
            /\ body # <<>>
            /\ \A i \in 1..Len(body) : IsHexDigit(body[i]) \/ body[i] = "_"
            /\ body[1] # "_" /\ body[Len(body)] # "_"
            /\ \A i \in 1..(Len(body) - 1) : ~(body[i] = "_" /\ body[i + 1] = "_")
        magnitude == HexValue(SelectSeq(body, IsHexDigit))
    IN  IF wellformed
        THEN [ok |-> TRUE, value |-> IF signed /\ t[1] = "-" THEN -magnitude ELSE magnitude]
        ELSE [ok |-> FALSE, value |-> 0]

NoColour == [kind |-> "none", name |-> <<>>, value |-> 0]
\* getattr(discord.Colour, color_name)()
NamedColour(name) == [kind |-> "named", name |-> name, value |-> 0]
\* discord.Colour(value)
Colour(value) == [kind |-> "value", name |-> <<>>, value |-> value]
\* discord.Colour.blurple()
DefaultColour == NamedColour(<<"b", "l", "u", "r", "p", "l", "e">>)

\* ''.join([c*2 for c in color_str])
Doubled(s) == [i \in 1..(2 * Len(s)) |-> s[(i + 1) \div 2]]

\* str_to_color(color_str): the colour returned and the effects of the call
str_to_color(lg, color_str) ==
    LET stripped == strip(color_str)
        color_name == lower(stripped)
        unhashed == IF stripped # <<>> /\ stripped[1] = "#" THEN Tail(stripped) ELSE stripped
        expanded == IF Len(unhashed) = 3 THEN Doubled(unhashed) ELSE unhashed
        parsed == int16(expanded)
        w == warning(lg, "Invalid color string")
    IN  IF color_name \in known_colors
        THEN [colour |-> NamedColour(color_name), raised |-> "none", logged |-> <<>>]
        ELSE IF Len(expanded) = 6 /\ parsed.ok
        THEN [colour |-> Colour(parsed.value), raised |-> "none", logged |-> <<>>]
        ELSE [colour |-> IF w.raised = "none" THEN DefaultColour ELSE NoColour,
              raised |-> w.raised, logged |-> w.logged]

\* the strings the colour resolver is called with
MaxLen == 6
Alphabet == {"r", "e", "D", "#", " ", "+"}
ColorStrings == UNION {[1..n -> Alphabet] : n \in 0..MaxLen}
ColorSamples ==
    {<<" ", " ", "T", "E", "A", "L", " ">>, <<"#", "A", "B", "C">>, <<"z", "z">>,
     <<"f", "f", "0", "0", "0", "0">>}

(***************************************************************************)
(* The calls.                                                              *)
(***************************************************************************)
\* the record of a call of `op` made with the sink in state lg
Call(op, lg, ctx, payload, arg, colour, eff) ==
    [op |-> op, uninit |-> (lg = None), ctx |-> ctx, payload |-> payload,
     arg |-> arg, colour |-> colour,
     ret |-> eff.ret, raised |-> eff.raised, logged |-> eff.logged,
     routes |-> eff.routes, outcomes |-> eff.outcomes, direct |-> eff.direct]

NoEffects == Effects(NoResult, "none", <<>>, <<>>, <<>>, <<>>)

\* no helper has been called yet
NoCall == Call("none", None, "", "", <<>>, NoColour, NoEffects)

Init ==
    /\ logger = None
    /\ registry = [n \in LoggerNames |-> [level |-> NOTSET, handlers |-> <<>>]]
    /\ first = NotYet
    /\ call = NoCall

SetupLogger ==
    \E name \in LoggerNames, file_level \in LevelNames, console_level \in LevelNames :
        /\ logger' = name
        /\ registry' = setup_logger(registry, name, file_level, console_level)
        /\ first' = IF first = NotYet
                    THEN [file |-> Threshold(registry', name, "file"),
                          console |-> Threshold(registry', name, "console")]
                    ELSE first
        /\ UNCHANGED call

\* debug(msg), info(msg), warning(msg) or error(msg) called by itself
LogDirect ==
    \E l \in {debug(logger, "msg"), info(logger, "msg"),
              warning(logger, "msg"), error(logger, "msg")} :
        /\ call' = Call("log", logger, "", "", <<>>, NoColour,
                        Effects(NoResult, l.raised, l.logged, <<>>, <<>>, <<>>))
        /\ UNCHANGED <<logger, registry, first>>

SafeSendMessage ==
    \E payload \in Payloads, outcome \in SendOutcomes :
        /\ call' = Call("safe_send_message", logger, "Channel", payload, <<>>, NoColour,
                        safe_send_message(logger, payload, outcome))
        /\ UNCHANGED <<logger, registry, first>>

SafeRespond ==
    \E payload \in Payloads, outcome \in RequestOutcomes, outcome2 \in RequestOutcomes :
        /\ call' = Call("safe_respond", logger, "Interaction", payload, <<>>, NoColour,
                        safe_respond(logger, payload, outcome, outcome2))
        /\ UNCHANGED <<logger, registry, first>>

SafeFollowup ==
    \E payload \in Payloads, outcome \in RequestOutcomes :
        /\ call' = Call("safe_followup", logger, "Interaction", payload, <<>>, NoColour,
                        safe_followup(logger, payload, outcome))
        /\ UNCHANGED <<logger, registry, first>>

Success ==
    \E ctx \in ContextKinds :
        \E outcome \in ClientOutcomes(ctx), outcome2 \in RequestOutcomes :
            /\ call' = Call("success", logger, ctx, "embed", <<>>, NoColour,
                            success(logger, ctx, outcome, outcome2))
            /\ UNCHANGED <<logger, registry, first>>

Failure ==
    \E ctx \in ContextKinds :
        \E outcome \in ClientOutcomes(ctx), outcome2 \in RequestOutcomes :
            /\ call' = Call("failure", logger, ctx, "embed", <<>>, NoColour,
                            failure(logger, ctx, outcome, outcome2))
            /\ UNCHANGED <<logger, registry, first>>

\* the record of str_to_color(arg)
ColorCall(lg, arg) ==
    LET r == str_to_color(lg, arg)
    IN  Call("str_to_color", lg, "", "", arg, r.colour,
             Effects(NoResult, r.raised, r.logged, <<>>, <<>>, <<>>))

StrToColor ==
    \E arg \in ColorSamples :
        /\ call' = ColorCall(logger, arg)
        /\ UNCHANGED <<logger, registry, first>>

Next ==
    \/ SetupLogger
    \/ LogDirect
    \/ SafeSendMessage
    \/ SafeRespond
    \/ SafeFollowup
    \/ Success
    \/ Failure
    \/ StrToColor

Spec == Init /\ [][Next]_vars

(***************************************************************************)
(* The colour resolver by itself: one call, on any string of at most       *)
(* MaxLen characters of Alphabet, before or after setup_logger().          *)
(***************************************************************************)
InitColor ==
    /\ \E lg \in {None, "DungeonBot"} :
        /\ logger = lg
        /\ registry = IF lg = None
                      THEN [n \in LoggerNames |-> [level |-> NOTSET, handlers |-> <<>>]]
                      ELSE setup_logger([n \in LoggerNames |->
                                            [level |-> NOTSET, handlers |-> <<>>]],
                                        lg, "INFO", "INFO")
        /\ first = IF lg = None THEN NotYet ELSE [file |-> INFO, console |-> INFO]
    /\ \E arg \in ColorStrings :
        call = Call("pending", logger, "", "", arg, NoColour, NoEffects)

ResolveColor ==
    /\ call.op = "pending"
    /\ call' = ColorCall(logger, call.arg)
    /\ UNCHANGED <<logger, registry, first>>

SpecColor == InitColor /\ [][ResolveColor]_vars

(***************************************************************************)
(* Properties.                                                             *)
(***************************************************************************)
DispatcherOps == {"safe_send_message", "safe_respond", "safe_followup"}
RemoteFailures == {"Forbidden", "NotFound", "HTTPException"}

\* the logger the last call ran with
CallLogger == IF call.uninit THEN None ELSE logger

Errors(c) == {i \in 1..Len(c.logged) : c.logged[i].level = ERROR}

\* the payloads a call delivered
Delivered(c) == {i \in 1..Len(c.outcomes) : c.outcomes[i] = "Ok"}

\* the sends a call asked the network for: InteractionResponded is raised by
\* the interaction object before anything is sent
NetworkSends(c) ==
    Cardinality({i \in 1..Len(c.outcomes) : c.outcomes[i] # "InteractionResponded"})
        + Len(c.direct)

\* the last network call of the call failed
DeliveryFailed(c) == c.outcomes # <<>> /\ c.outcomes[Len(c.outcomes)] # "Ok"

SendFailed == call.op = "safe_send_message" /\ call.outcomes[1] \in RemoteFailures

\* C1, as stated: safe_send_message never raises; when the rate limiter's send
\* raises Forbidden, NotFound or another exception, the call returns None and
\* logs exactly one error.
C1_SendNeverRaises ==
    SendFailed =>
        /\ call.raised = "none"
        /\ call.ret = NoResult
        /\ Len(call.logged) = 1 /\ Errors(call) = {1}

\* C1, amended: called with the logger set up, safe_send_message returns None
\* and logs exactly one error for each failure of the send, and raises nothing;
\* called before setup_logger, the RuntimeError of the logging call escapes and
\* nothing is logged.
C1_SendFailureSuppressed ==
    SendFailed =>
        /\ call.ret = NoResult
        /\ ~call.uninit =>
            /\ call.raised = "none"
            /\ Len(call.logged) = 1 /\ Errors(call) = {1}
        /\ call.uninit => call.raised = "RuntimeError" /\ call.logged = <<>>

C1_Witness ==
    /\ SendFailed /\ ~call.uninit
    /\ call.outcomes = <<"NotFound">>
    /\ call.raised = "none" /\ call.ret = NoResult
    /\ Len(call.logged) = 1 /\ call.logged[1].msg = "Channel not found"

RespondedFirst ==
    call.op = "safe_respond" /\ call.outcomes[1] = "InteractionResponded"

\* C2: when the initial response raises InteractionResponded, safe_respond
\* delivers the payload on the followup route and returns what safe_followup
\* returns for the same payload.
C2_FallbackReturnsFollowupResult ==
    RespondedFirst =>
        /\ call.routes = <<CallbackRoute, FollowupRoute>>
        /\ call.ret = safe_followup(CallLogger, call.payload, call.outcomes[2]).ret

\* a failure of safe_respond or safe_followup that is not the fallback itself
InteractionFailed ==
    /\ call.op \in {"safe_respond", "safe_followup"}
    /\ DeliveryFailed(call)

\* C3, as stated: a failure of safe_respond other than InteractionResponded,
\* and any failure of the followup, is logged as an error and suppressed: the
\* call returns None and raises nothing.
C3_FailuresSuppressed ==
    InteractionFailed =>
        /\ Errors(call) # {}
        /\ call.ret = NoResult
        /\ call.raised = "none"

\* C3, amended: with the logger set up, such a failure is logged as an error,
\* the call returns None and raises nothing; before setup_logger the
\* RuntimeError of the logging call escapes and nothing is logged.
C3_FailuresSuppressedOnceSetUp ==
    InteractionFailed =>
        /\ call.ret = NoResult
        /\ ~call.uninit => Errors(call) # {} /\ call.raised = "none"
        /\ call.uninit => call.raised = "RuntimeError" /\ call.logged = <<>>

C3_Witness ==
    /\ call.op = "safe_respond" /\ ~call.uninit
    /\ call.outcomes = <<"InteractionResponded", "Forbidden">>
    /\ Len(call.logged) = 1
    /\ call.logged[1].msg = "Error during the followup"
    /\ call.ret = NoResult /\ call.raised = "none"

\* C4: InteractionResponded is never logged as an error: a safe_respond whose
\* initial response raises it logs an error only when the followup fails, and
\* then the error is the followup's.
C4_RespondedIsNoError ==
    RespondedFirst =>
        \A i \in Errors(call) :
            /\ Len(call.outcomes) = 2
            /\ call.outcomes[2] # "Ok"
            /\ call.logged[i].msg = "Error during the followup"

C4_Witness ==
    /\ RespondedFirst /\ ~call.uninit
    /\ call.outcomes = <<"InteractionResponded", "Ok">>
    /\ call.logged = <<>>

\* C5, as stated, for the calls made with the logger set up: every call of
\* safe_send_message, safe_respond or safe_followup logs exactly one record
\* and puts at most one send on the network.
C5_OneEntryPerCall ==
    (call.op \in DispatcherOps /\ ~call.uninit) =>
        /\ Len(call.logged) = 1
        /\ NetworkSends(call) <= 1

\* C5, amended: with the logger set up, a call of safe_send_message logs
\* exactly one record; a call of safe_respond or safe_followup logs exactly one
\* record, an error, when the delivery fails and none when it succeeds; a call
\* made before setup_logger logs none; every call puts at most one send on the
\* network.
C5_OneEntryPerSendOrFailure ==
    call.op \in DispatcherOps =>
        /\ NetworkSends(call) <= 1
        /\ call.uninit => call.logged = <<>>
        /\ ~call.uninit =>
            IF call.op = "safe_send_message"
            THEN /\ Len(call.logged) = 1
                 /\ call.logged[1].level = IF DeliveryFailed(call) THEN ERROR ELSE INFO
            ELSE IF DeliveryFailed(call)
            THEN Len(call.logged) = 1 /\ Errors(call) = {1}
            ELSE call.logged = <<>>

C5_Witness ==
    /\ call.op = "safe_respond" /\ ~call.uninit
    /\ call.outcomes = <<"Ok">>
    /\ call.ret = Result(CallbackRoute, call.payload)
    /\ call.logged = <<>>

\* C6: the notification of success() and failure() goes through the rate
\* limiter for a command context as for an interaction, so that with the
\* logger set up no failure of the delivery escapes them.
C6_NotificationsSuppressed ==
    (call.op \in {"success", "failure"} /\ ~call.uninit) =>
        /\ call.direct = <<>>
        /\ call.raised = "none"

\* the call tried to log: the logging functions and safe_send_message always
\* do, success() and failure() do first of all, safe_respond and safe_followup
\* do when the delivery failed, str_to_color does when it found no colour
Attempted(c) ==
    \/ c.op \in {"log", "safe_send_message", "success", "failure"}
    \/ c.op \in {"safe_respond", "safe_followup"} /\ DeliveryFailed(c)
    \/ c.op = "str_to_color" /\ c.colour.kind \notin {"named", "value"}

\* C7: no record is logged before setup_logger: a call that tries to log while
\* logger is None raises RuntimeError to its caller and logs nothing.
C7_NoRecordBeforeSetup ==
    /\ \A i \in 1..Len(call.logged) : call.logged[i].name # None
    /\ call.uninit =>
        /\ call.logged = <<>>
        /\ Attempted(call) => call.raised = "RuntimeError"

C7_Witness ==
    /\ call.uninit
    /\ call.op = "safe_send_message"
    /\ call.outcomes = <<"Ok">>
    /\ call.raised = "RuntimeError"
    /\ call.logged = <<>>

\* C8: setup_logger is idempotent: after any number of calls the logger has
\* one file handler and one console handler, and the thresholds in effect are
\* those of the first call.
C8_SetupIdempotent ==
    logger # None =>
        /\ Cardinality(Handlers(registry, logger, "file")) = 1
        /\ Cardinality(Handlers(registry, logger, "console")) = 1
        /\ Threshold(registry, logger, "file") = first.file
        /\ Threshold(registry, logger, "console") = first.console

\* a string of 3 or 6 hexadecimal digits after an optional '#'
ValidHex(s) ==
    LET t == strip(s)
        h == IF t # <<>> /\ t[1] = "#" THEN Tail(t) ELSE t
    IN  Len(h) \in {3, 6} /\ \A i \in 1..Len(h) : IsHexDigit(h[i])

KnownName(s) == lower(strip(s)) \in known_colors

\* C9: for a string that is neither a known colour name nor valid hex,
\* str_to_color with the logger set up returns the default colour, logs
\* exactly one warning and raises nothing.
C9_InvalidGivesDefault ==
    (/\ call.op = "str_to_color" /\ ~call.uninit
     /\ ~KnownName(call.arg) /\ ~ValidHex(call.arg)) =>
        /\ call.colour = DefaultColour
        /\ call.raised = "none"
        /\ Len(call.logged) = 1 /\ call.logged[1].level = WARNING

\* C10: no retry: safe_send_message and safe_followup invoke the rate limiter
\* once; safe_respond invokes it once for the response and once more, for the
\* followup, exactly when the response raised InteractionResponded; no call
\* delivers its payload twice.
C10_NoRetry ==
    /\ call.op = "safe_send_message" => call.routes = <<SendRoute>>
    /\ call.op = "safe_followup" => call.routes = <<FollowupRoute>>
    /\ call.op = "safe_respond" =>
        IF call.outcomes[1] = "InteractionResponded"
        THEN call.routes = <<CallbackRoute, FollowupRoute>>
        ELSE call.routes = <<CallbackRoute>>
    /\ call.op \in DispatcherOps =>
        /\ Len(call.outcomes) = Len(call.routes)
        /\ Cardinality(Delivered(call)) <= 1

C10_Witness ==
    /\ call.op = "safe_respond" /\ ~call.uninit
    /\ call.routes = <<CallbackRoute, FollowupRoute>>
    /\ call.outcomes = <<"InteractionResponded", "HTTPException">>
    /\ Delivered(call) = {}

====
